---------------------------- MODULE Spec2Model ----------------------------
(***************************************************************************)
(* A model of suite25519 (src/src/suite25519.js): Ed25519 signing, ECIES   *)
(* over X25519 / HKDF-SHA256 / AES-GCM-SIV, CBOR envelopes, and the six    *)
(* high-level operations that compose them.                                *)
(*                                                                         *)
(* The curve, cipher, hash, KDF and CBOR libraries are outside the         *)
(* repository.  They are modelled symbolically by their contracts: a       *)
(* signature verifies only for the message and key that made it, a         *)
(* ciphertext opens only under the key and nonce that sealed it and only   *)
(* when no bit of it was changed, hashes and key derivations are           *)
(* injective, and X25519 agreement is commutative.  Byte strings are       *)
(* records tagged by the primitive that produced them; JavaScript values   *)
(* are records tagged by their run-time type.                              *)
(***************************************************************************)
EXTENDS Integers, Sequences, FiniteSets, TLC

\* ------------------------------------------------------------- bounds
\* Number of Ed25519 key pairs in play.
NumKeys == 2
\* Longest message, in characters (strings) or bytes (byte arrays).
MaxLen == 1
\* Number of distinct values the random source can return.
NumRand == 2
\* Width, in bits, of the window of a byte string an attacker may flip.
FlipBits == 1

Keys == 1..NumKeys
Rands == 1..NumRand
Bits == 0..(FlipBits - 1)

\* ------------------------------------------------------- JavaScript values
Undefined == [t |-> "undefined"]
Bool(b) == [t |-> "boolean", v |-> b]
Str(s) == [t |-> "string", s |-> s]
Num == [t |-> "number"]
\* A Uint8Array holding the byte string d.
U8(d) == [t |-> "Uint8Array", d |-> d]

\* typeof / constructor.name as assertType and the Message constructor
\* print them.
TypeName(v) ==
  CASE v.t = "undefined" -> "undefined"
    [] v.t = "string" -> "String"
    [] v.t = "number" -> "Number"
    [] v.t = "boolean" -> "Boolean"
    [] OTHER -> v.t

\* The outcome of a call: a returned value or a thrown Error, with the
\* sequence of primitives the call invoked.
Ret(v, calls) == [st |-> "returned", val |-> v, err |-> "", calls |-> calls]
Throw(e, calls) == [st |-> "threw", val |-> Undefined, err |-> e, calls |-> calls]
NoOutcome == [st |-> "none", val |-> Undefined, err |-> "", calls |-> <<>>]

\* An object literal / decoded CBOR map: a function from its own property
\* names to values.  Reading a missing property gives undefined.
EmptyObj == [f \in {} |-> Undefined]
Has(obj, f) == f \in DOMAIN obj
Get(obj, f) == IF Has(obj, f) THEN obj[f] ELSE Undefined
Put(obj, f, v) == (f :> v) @@ obj

\* ------------------------------------------------------------ byte strings
Raw(b) == [k |-> "raw", b |-> b]
\* The 32-byte Ed25519 seed of key pair i.
Seed(i) == [k |-> "seed", i |-> i]

\* x[i] flipped, x a number.
FlipBit(x, i) ==
  IF (x \div (2 ^ i)) % 2 = 1 THEN x - 2 ^ i ELSE x + 2 ^ i

\* ------------------------------------------------- external primitives
\* TextEncoder.encode: UTF-8.
RECURSIVE Utf8(_)
Utf8(s) ==
  IF s = <<>> THEN <<>>
  ELSE LET c == Head(s)
       IN  (IF c < 128 THEN <<c>>
            ELSE <<192 + (c \div 64), 128 + (c % 64)>>) \o Utf8(Tail(s))

\* ed25519.getPublicKey
ed25519_getPublicKey(priv) == [k |-> "edpub", i |-> priv.i]

\* ed25519.sign: the signature of message bytes m under seed priv.  flip
\* is the set of bits changed since signing (as a mask).
ed25519_sign(m, priv) == [k |-> "sig", m |-> m, by |-> priv.i, flip |-> 0]

\* ed25519.verify(sig, msg, pub, {zip215: false}): "throws" for bytes that
\* are not a 64-byte signature, else whether sig is the untouched
\* signature of msg by the key whose public half is pub.
ed25519_verify(sig, msg, pub) ==
  IF sig.k # "sig" THEN "throws"
  ELSE IF pub.k = "edpub" /\ sig.flip = 0 /\ sig.m = msg /\ sig.by = pub.i
       THEN "true" ELSE "false"

\* ripemd160 followed by bytesToHex: an injective digest.
ripemd160Hex(d) == [k |-> "h160", of |-> d]

\* edwardsToMontgomeryPriv
edwardsToMontgomeryPriv(priv) == [k |-> "xpriv", src |-> "ed", i |-> priv.i]
\* x25519.utils.randomPrivateKey, r the random source's draw.
x25519_randomPrivateKey(r) == [k |-> "xpriv", src |-> "rnd", i |-> r]
\* x25519.getPublicKey
x25519_getPublicKey(xpriv) == [k |-> "xpub", x |-> xpriv]
\* edwardsToMontgomeryPub: the birational map commutes with key derivation.
edwardsToMontgomeryPub(pub) ==
  x25519_getPublicKey(edwardsToMontgomeryPriv(Seed(pub.i)))
\* x25519.getSharedSecret: commutative in the two key pairs.
x25519_getSharedSecret(xpriv, xpub) == [k |-> "ss", pair |-> {xpriv, xpub.x}]

\* randomBytes(12), r the random source's draw.
randomBytes12(r) == [k |-> "nonce", r |-> r, flip |-> 0]

\* siv(key, nonce).encrypt(pt): ciphertext and tag as one byte string.
siv_encrypt(key, nonce, pt) ==
  [k |-> "ct", key |-> key, n |-> nonce, pt |-> pt, flip |-> 0]
\* siv(key, nonce).decrypt(ct) succeeds: the tag holds under (key, nonce).
siv_tagOk(key, nonce, ct) ==
  ct.k = "ct" /\ ct.flip = 0 /\ ct.key = key /\ ct.n = nonce

\* cbor-x encode / decode.  A byte string that is no CBOR map does not
\* decode.
encode(obj) == U8([k |-> "cbor", obj |-> obj])
decodes(bytes) == bytes.d.k = "cbor"
decode(bytes) == bytes.d.obj

\* Error texts of the external libraries (their wording is not the
\* repository's).
NobleCurvesError == "invalid x25519 public key"
NobleCiphersError == "invalid nonce length"
CborError == "Unexpected end of CBOR data"

\* ---------------------------------------------------------------- helpers
TypeOf(v) ==
  IF v.t \in {"undefined", "string", "number", "boolean"} THEN v.t ELSE "object"

\* assertType({name: variable}, expectedType): "" when the check passes,
\* else the message of the Error it throws.  expectedType is "string",
\* "boolean", "Uint8Array" or a class name.
assertType(name, variable, expectedType) ==
  IF expectedType \in {"string", "boolean"}
  THEN IF TypeOf(variable) # expectedType
       THEN name \o " [" \o TypeOf(variable) \o "] is not an instance of ["
              \o expectedType \o "]."
       ELSE ""
  ELSE IF variable.t # expectedType
       THEN name \o " [" \o TypeName(variable) \o "] is not an instance of ["
              \o expectedType \o "]."
       ELSE ""

\* Default parameters that are all true.
Default_true(arg, dflt) == IF arg = Undefined THEN Bool(TRUE) ELSE arg

\* A default parameter value: undefined takes the default.
Default(arg, dflt) == IF arg = Undefined THEN dflt ELSE arg

\* ------------------------------------------------------------ data classes
\* BinaryData and its subclasses: an object of class cls wrapping bytes d.
BinaryData(cls, d) == [t |-> cls, data |-> d]
toBinary(o) == U8(o.data)

\* Message with a string's bytes taken as its UTF-16 code units instead of
\* its UTF-8 encoding.
Message_codeUnits(data) ==
  IF data.t = "Uint8Array" THEN Ret(BinaryData("Message", data.d), <<>>)
  ELSE IF data.t = "string"
       THEN Ret(BinaryData("Message", Raw(data.s)), <<>>)
       ELSE Throw("Invalid data type for Message constructor", <<>>)

\* new Message(data)
Message(data) ==
  IF data.t = "Uint8Array" THEN Ret(BinaryData("Message", data.d), <<>>)
  ELSE IF data.t = "string"
       THEN Ret(BinaryData("Message", Raw(Utf8(data.s))), <<>>)
       ELSE Throw("Invalid data type for Message constructor: "
                    \o "Expected string or Uint8Array, got "
                    \o (IF TypeOf(data) = "object" THEN TypeName(data)
                        ELSE TypeOf(data)),
                  <<>>)

\* plainMessage instanceof Message ? plainMessage : new Message(plainMessage)
toMessage(plainMessage) ==
  IF plainMessage.t = "Message" THEN Ret(plainMessage, <<>>)
  ELSE Message(plainMessage)

\* PrivateKey / PublicKey objects of key pair i.
PrivateKey(i) == BinaryData("PrivateKey", Seed(i))
\* get publicKey()
publicKey(priv) == BinaryData("PublicKey", ed25519_getPublicKey(priv.data))
\* get id()
id(pub) == ripemd160Hex(pub.data)

\* PublicKey.verify that takes an error of the primitive for a valid
\* signature.
PublicKey_verify_errorIsValid(this, message, signature) ==
  ed25519_verify(signature.data, message.data, this.data) # "false"

\* PublicKey.verify with the primitive's first two arguments exchanged.
PublicKey_verify_swapped(this, message, signature) ==
  ed25519_verify(message.data, signature.data, this.data) = "true"

\* PublicKey.verify(messageData, signature): message and signature are
\* objects; an error of the primitive counts as an invalid signature.
PublicKey_verify(this, message, signature) ==
  ed25519_verify(signature.data, message.data, this.data) = "true"

\* ------------------------------------------------------------- ECIES core
\* deriveAesKey that drops its input keying material.
deriveAesKey_constant(sharedSecret) ==
  [k |-> "aeskey", ikm |-> [k |-> "ss", pair |-> {}],
   info |-> "suite25519-aes-key"]

deriveAesKey(sharedSecret) ==
  [k |-> "aeskey", ikm |-> sharedSecret, info |-> "suite25519-aes-key"]

\* eciesEncrypt with an ephemeral key pair made once and kept for every
\* call.
eciesEncrypt_cachedEphemeral(receiverPublicKeyEd, messageUint8Array, e, r) ==
  LET bad1 == assertType("receiverPublicKeyEd", receiverPublicKeyEd, "Uint8Array")
      bad2 == assertType("messageUint8Array", messageUint8Array, "Uint8Array")
  IN  IF bad1 # "" THEN Throw(bad1, <<>>)
      ELSE IF bad2 # "" THEN Throw(bad2, <<>>)
      ELSE IF receiverPublicKeyEd.d.k # "edpub"
           THEN Throw("eciesEncrypt failed: " \o NobleCurvesError, <<>>)
      ELSE LET receiverPublicKeyX == edwardsToMontgomeryPub(receiverPublicKeyEd.d)
               ephemeralPrivateKeyX == x25519_randomPrivateKey(1)
               ephemeralPublicKeyX == x25519_getPublicKey(ephemeralPrivateKeyX)
               sharedSecret ==
                 x25519_getSharedSecret(ephemeralPrivateKeyX, receiverPublicKeyX)
               aesKey == deriveAesKey(sharedSecret)
               nonce == randomBytes12(r)
               ciphertext == siv_encrypt(aesKey, nonce, messageUint8Array.d)
           IN  Ret(Put(Put(Put(EmptyObj, "C", U8(ciphertext)),
                           "P_e", U8(ephemeralPublicKeyX)),
                       "N", U8(nonce)),
                   <<"x25519.randomPrivateKey", "randomBytes", "aes.encrypt">>)

\* eciesEncrypt, with the random source's two draws: e for the ephemeral
\* private key and r for the nonce.
eciesEncrypt(receiverPublicKeyEd, messageUint8Array, e, r) ==
  LET bad1 == assertType("receiverPublicKeyEd", receiverPublicKeyEd, "Uint8Array")
      bad2 == assertType("messageUint8Array", messageUint8Array, "Uint8Array")
  IN  IF bad1 # "" THEN Throw(bad1, <<>>)
      ELSE IF bad2 # "" THEN Throw(bad2, <<>>)
      ELSE IF receiverPublicKeyEd.d.k # "edpub"
           THEN Throw("eciesEncrypt failed: " \o NobleCurvesError, <<>>)
      ELSE LET receiverPublicKeyX == edwardsToMontgomeryPub(receiverPublicKeyEd.d)
               ephemeralPrivateKeyX == x25519_randomPrivateKey(e)
               ephemeralPublicKeyX == x25519_getPublicKey(ephemeralPrivateKeyX)
               sharedSecret ==
                 x25519_getSharedSecret(ephemeralPrivateKeyX, receiverPublicKeyX)
               aesKey == deriveAesKey(sharedSecret)
               nonce == randomBytes12(r)
               ciphertext == siv_encrypt(aesKey, nonce, messageUint8Array.d)
           IN  Ret(Put(Put(Put(EmptyObj, "C", U8(ciphertext)),
                           "P_e", U8(ephemeralPublicKeyX)),
                       "N", U8(nonce)),
                   <<"x25519.randomPrivateKey", "randomBytes", "aes.encrypt">>)

EciesDecryptPrefix == "eciesDecrypt failed: "
AuthenticationFailed ==
  "Decryption failed (authentication tag mismatch or other error)"

\* The inner try with a cipher that checks no tag.
aesDecrypt_unauthenticated(aesKey, nonce, ciphertext) ==
  IF ciphertext.k # "ct"
  THEN Throw(AuthenticationFailed, <<"aes.decrypt", "console.error">>)
  ELSE Ret(U8(ciphertext.pt), <<"aes.decrypt">>)

\* The inner try with the cause of the failure named in its error.
aesDecrypt_causeNamed(aesKey, nonce, ciphertext) ==
  IF siv_tagOk(aesKey, nonce, ciphertext)
  THEN Ret(U8(ciphertext.pt), <<"aes.decrypt">>)
  ELSE IF ciphertext.k = "ct" /\ ciphertext.n # nonce
  THEN Throw("Decryption failed (wrong nonce)", <<"aes.decrypt", "console.error">>)
  ELSE IF ciphertext.k = "ct" /\ ciphertext.key # aesKey
  THEN Throw("Decryption failed (wrong key)", <<"aes.decrypt", "console.error">>)
  ELSE Throw(AuthenticationFailed, <<"aes.decrypt", "console.error">>)

\* The inner try of eciesDecrypt: aes.decrypt under (aesKey, nonce); any
\* error of the cipher is logged and replaced by the repository's own.
aesDecrypt(aesKey, nonce, ciphertext) ==
  IF ~siv_tagOk(aesKey, nonce, ciphertext)
  THEN Throw(AuthenticationFailed, <<"aes.decrypt", "console.error">>)
  ELSE Ret(U8(ciphertext.pt), <<"aes.decrypt">>)

eciesDecrypt(receiverPrivateKeyEd, ephemeralPublicKeyX, nonce, ciphertext) ==
  LET bad1 == assertType("receiverPrivateKeyEd", receiverPrivateKeyEd, "Uint8Array")
      bad2 == assertType("ephemeralPublicKeyX", ephemeralPublicKeyX, "Uint8Array")
      bad3 == assertType("nonce", nonce, "Uint8Array")
      bad4 == assertType("ciphertext", ciphertext, "Uint8Array")
  IN  IF bad1 # "" THEN Throw(bad1, <<>>)
      ELSE IF bad2 # "" THEN Throw(bad2, <<>>)
      ELSE IF bad3 # "" THEN Throw(bad3, <<>>)
      ELSE IF bad4 # "" THEN Throw(bad4, <<>>)
      ELSE IF ephemeralPublicKeyX.d.k # "xpub"
           THEN Throw(EciesDecryptPrefix \o NobleCurvesError,
                      <<"x25519.getSharedSecret">>)
      ELSE LET receiverPrivateKeyX == edwardsToMontgomeryPriv(receiverPrivateKeyEd.d)
               sharedSecret ==
                 x25519_getSharedSecret(receiverPrivateKeyX, ephemeralPublicKeyX.d)
               aesKey == deriveAesKey(sharedSecret)
           IN  IF nonce.d.k # "nonce"
               THEN Throw(EciesDecryptPrefix \o NobleCiphersError,
                          <<"x25519.getSharedSecret", "siv">>)
               ELSE LET plaintext == aesDecrypt(aesKey, nonce.d, ciphertext.d)
                        calls == <<"x25519.getSharedSecret", "siv">>
                                   \o plaintext.calls
                    IN  IF plaintext.st = "threw"
                        THEN Throw(EciesDecryptPrefix \o plaintext.err, calls)
                        ELSE Ret(plaintext.val, calls)

\* PrivateKey.decrypt(encryptedPayload): the method form of decryption;
\* its result is a Message object.
PrivateKey_decrypt(this, encryptedPayload) ==
  LET bad0 == assertType("encryptedPayload", encryptedPayload, "Uint8Array")
  IN  IF bad0 # "" THEN Throw(bad0, <<>>)
      ELSE IF ~decodes(encryptedPayload) THEN Throw(CborError, <<"decode">>)
      ELSE LET decoded == decode(encryptedPayload)
               C == Get(decoded, "C")
               P_e == Get(decoded, "P_e")
               N == Get(decoded, "N")
               bad1 == assertType("C", C, "Uint8Array")
               bad2 == assertType("P_e", P_e, "Uint8Array")
               bad3 == assertType("N", N, "Uint8Array")
           IN  IF bad1 # "" THEN Throw(bad1, <<"decode">>)
               ELSE IF bad2 # "" THEN Throw(bad2, <<"decode">>)
               ELSE IF bad3 # "" THEN Throw(bad3, <<"decode">>)
               ELSE LET plaintext == eciesDecrypt(toBinary(this), P_e, N, C)
                        calls == <<"decode", "eciesDecrypt">> \o plaintext.calls
                    IN  IF plaintext.st = "threw"
                        THEN [plaintext EXCEPT !.calls = calls]
                        ELSE Ret(Message(plaintext.val).val, calls)

\* PublicKey.encrypt(messageData): the method form of encryption.
PublicKey_encrypt(this, messageData, e, r) ==
  LET message == toMessage(messageData)
  IN  IF message.st = "threw" THEN message
      ELSE LET cipherObject ==
                 eciesEncrypt(toBinary(this), toBinary(message.val), e, r)
           IN  IF cipherObject.st = "threw" THEN cipherObject
               ELSE Ret(encode(cipherObject.val), cipherObject.calls)

\* ------------------------------------------------------- high-level API
KeyMismatch ==
  "Verification failed: Included public key 'P' does not match expected senderPublicKey."
MessageNotIncluded ==
  "Verification failed: Message 'm' not included in the signed payload."
InvalidSignature == "Verification failed: Invalid signature."
MissingSignature == "Invalid signed payload: Missing or invalid signature."
MessageNotBytes ==
  "Invalid signed payload: Included message \"m\" is not Uint8Array."
PublicKeyNotBytes ==
  "Invalid signed payload: Included public key \"P\" is not Uint8Array."
InvalidEncryptedPayload ==
  "Invalid encrypted payload structure after CBOR decoding."

\* Truthiness with an empty typed array taken as absent (a length test).
Truthy_byLength(v) ==
  CASE v.t = "undefined" -> FALSE
    [] v.t = "number" -> FALSE
    [] v.t = "string" -> v.s # <<>>
    [] v.t = "boolean" -> v.v
    [] v.t = "Uint8Array" -> v.d # Raw(<<>>)
    [] OTHER -> TRUE

\* JavaScript truthiness of a decoded value: objects (typed arrays, even
\* empty ones) are truthy; undefined, 0 and "" are not.
Truthy(v) ==
  CASE v.t = "undefined" -> FALSE
    [] v.t = "number" -> FALSE
    [] v.t = "string" -> v.s # <<>>
    [] v.t = "boolean" -> v.v
    [] OTHER -> TRUE

signMessage(plainMessage, signingPrivateKey, includeMessageArg, includeSenderPublicKeyArg) ==
  LET includeMessage == Default(includeMessageArg, Bool(FALSE))
      includeSenderPublicKey == Default(includeSenderPublicKeyArg, Bool(FALSE))
      bad1 == assertType("signingPrivateKey", signingPrivateKey, "PrivateKey")
      bad2 == assertType("includeMessage", includeMessage, "boolean")
      bad3 == assertType("includeSenderPublicKey", includeSenderPublicKey, "boolean")
      message == toMessage(plainMessage)
  IN  IF bad1 # "" THEN Throw(bad1, <<>>)
      ELSE IF bad2 # "" THEN Throw(bad2, <<>>)
      ELSE IF bad3 # "" THEN Throw(bad3, <<>>)
      ELSE IF message.st = "threw" THEN message
      ELSE LET messageBinary == toBinary(message.val)
               sig == ed25519_sign(messageBinary.d, toBinary(signingPrivateKey).d)
               r0 == Put(EmptyObj, "sig", U8(sig))
               r1 == IF includeMessage.v THEN Put(r0, "m", messageBinary) ELSE r0
               r2 == IF includeSenderPublicKey.v
                     THEN Put(r1, "P", toBinary(publicKey(signingPrivateKey)))
                     ELSE r1
           IN  Ret(encode(r2), <<"ed25519.sign">>)

\* !sig || !(sig instanceof Uint8Array)
signatureMissing(sig) == ~Truthy(sig) \/ sig.t # "Uint8Array"
\* The key check with an envelope without P taken as a mismatch.
keyMismatch_required(P, senderPublicKey) ==
  \/ ~Truthy(P)
  \/ id(BinaryData("PublicKey", P.d)) # id(senderPublicKey)
\* The key check left out.
keyMismatch_skipped(P, senderPublicKey) == FALSE

\* The key check: P is in the payload and its id is not the expected key's.
keyMismatch(P, senderPublicKey) ==
  /\ Truthy(P)
  /\ id(BinaryData("PublicKey", P.d)) # id(senderPublicKey)
\* The presence check of m turned round.
messageMissing_inverted(m) == m # Undefined
\* The presence check of m left out.
messageMissing_never(m) == FALSE

\* m === undefined
messageMissing(m) == m = Undefined

verifyMessage(signedPayload, senderPublicKey) ==
  LET bad1 == assertType("signedPayload", signedPayload, "Uint8Array")
      bad2 == assertType("senderPublicKey", senderPublicKey, "PublicKey")
  IN  IF bad1 # "" THEN Throw(bad1, <<>>)
      ELSE IF bad2 # "" THEN Throw(bad2, <<>>)
      ELSE IF ~decodes(signedPayload) THEN Throw(CborError, <<"decode">>)
      ELSE LET decoded == decode(signedPayload)
               sig == Get(decoded, "sig")
               m == Get(decoded, "m")
               P == Get(decoded, "P")
           IN  IF signatureMissing(sig)
               THEN Throw(MissingSignature, <<"decode">>)
               ELSE IF m # Undefined /\ m.t # "Uint8Array"
               THEN Throw(MessageNotBytes, <<"decode">>)
               ELSE IF P # Undefined /\ P.t # "Uint8Array"
               THEN Throw(PublicKeyNotBytes, <<"decode">>)
               ELSE IF keyMismatch(P, senderPublicKey)
               THEN Throw(KeyMismatch, <<"decode", "ripemd160", "ripemd160">>)
               ELSE LET idCalls == IF Truthy(P) THEN <<"ripemd160", "ripemd160">>
                                   ELSE <<>>
                    IN  IF messageMissing(m)
                        THEN Throw(MessageNotIncluded, <<"decode">> \o idCalls)
                        ELSE LET signature == BinaryData("Signature", sig.d)
                                 message == Message(m)
                                 calls == <<"decode">> \o idCalls
                                            \o <<"ed25519.verify">>
                             IN  IF message.st = "threw"
                                 THEN Throw(message.err, <<"decode">> \o idCalls)
                                 ELSE IF ~PublicKey_verify(senderPublicKey,
                                                           message.val, signature)
                                 THEN Throw(InvalidSignature, calls)
                                 ELSE Ret(m, calls)

encryptMessage(plainMessage, recipientPublicKey, e, r) ==
  LET bad1 == assertType("recipientPublicKey", recipientPublicKey, "PublicKey")
      message == toMessage(plainMessage)
  IN  IF bad1 # "" THEN Throw(bad1, <<>>)
      ELSE IF message.st = "threw" THEN message
      ELSE LET messageBinary == toBinary(message.val)
               cipherObject ==
                 eciesEncrypt(toBinary(recipientPublicKey), messageBinary, e, r)
           IN  IF cipherObject.st = "threw" THEN cipherObject
               ELSE Ret(encode(cipherObject.val), cipherObject.calls)

\* The structure check with only the ciphertext looked at.
invalidStructure_onlyC(C, P_e, N) == C.t # "Uint8Array"

\* !(C instanceof Uint8Array) || !(P_e instanceof Uint8Array) ||
\* !(N instanceof Uint8Array)
invalidStructure(C, P_e, N) ==
  C.t # "Uint8Array" \/ P_e.t # "Uint8Array" \/ N.t # "Uint8Array"

decryptMessage(encryptedPayload, recipientPrivateKey) ==
  LET bad1 == assertType("encryptedPayload", encryptedPayload, "Uint8Array")
      bad2 == assertType("recipientPrivateKey", recipientPrivateKey, "PrivateKey")
  IN  IF bad1 # "" THEN Throw(bad1, <<>>)
      ELSE IF bad2 # "" THEN Throw(bad2, <<>>)
      ELSE IF ~decodes(encryptedPayload) THEN Throw(CborError, <<"decode">>)
      ELSE LET decoded == decode(encryptedPayload)
               C == Get(decoded, "C")
               P_e == Get(decoded, "P_e")
               N == Get(decoded, "N")
           IN  IF invalidStructure(C, P_e, N)
               THEN Throw(InvalidEncryptedPayload, <<"decode">>)
               ELSE LET messageBinary ==
                          eciesDecrypt(toBinary(recipientPrivateKey), P_e, N, C)
                    IN  [messageBinary EXCEPT
                           !.calls = <<"decode", "eciesDecrypt">> \o @]

\* signAndEncryptMessage that puts the sender's key in whatever the flag.
signAndEncryptMessage_flagIgnored(plainMessage, signingPrivateKey, recipientPublicKey, includeSenderPublicKeyArg, e, r) ==
  LET signedPayload ==
        signMessage(plainMessage, signingPrivateKey, Bool(TRUE), Bool(TRUE))
  IN  IF signedPayload.st = "threw" THEN signedPayload
      ELSE encryptMessage(signedPayload.val, recipientPublicKey, e, r)

\* signAndEncryptMessage that encrypts the message instead of the signed
\* payload.
signAndEncryptMessage_plain(plainMessage, signingPrivateKey, recipientPublicKey, includeSenderPublicKeyArg, e, r) ==
  LET signedPayload ==
        signMessage(plainMessage, signingPrivateKey, Bool(TRUE),
                    Default(includeSenderPublicKeyArg, Bool(TRUE)))
  IN  IF signedPayload.st = "threw" THEN signedPayload
      ELSE encryptMessage(plainMessage, recipientPublicKey, e, r)

signAndEncryptMessage(plainMessage, signingPrivateKey, recipientPublicKey, includeSenderPublicKeyArg, e, r) ==
  LET includeSenderPublicKey == Default(includeSenderPublicKeyArg, Bool(TRUE))
      bad1 == assertType("signingPrivateKey", signingPrivateKey, "PrivateKey")
      bad2 == assertType("recipientPublicKey", recipientPublicKey, "PublicKey")
      bad3 == assertType("includeSenderPublicKey", includeSenderPublicKey, "boolean")
  IN  IF bad1 # "" THEN Throw(bad1, <<>>)
      ELSE IF bad2 # "" THEN Throw(bad2, <<>>)
      ELSE IF bad3 # "" THEN Throw(bad3, <<>>)
      ELSE LET signedPayload ==
                 signMessage(plainMessage, signingPrivateKey, Bool(TRUE),
                             includeSenderPublicKey)
           IN  IF signedPayload.st = "threw" THEN signedPayload
               ELSE LET encryptedSignedPayload ==
                          encryptMessage(signedPayload.val, recipientPublicKey, e, r)
                    IN  [encryptedSignedPayload EXCEPT
                           !.calls = <<"signMessage">> \o signedPayload.calls
                                       \o <<"encryptMessage">> \o @]

\* decryptAndVerifyMessage that hands back the decrypted payload when its
\* verification fails.
decryptAndVerifyMessage_unverified(encryptedSignedPayload, recipientPrivateKey, senderPublicKey) ==
  LET signedPayload == decryptMessage(encryptedSignedPayload, recipientPrivateKey)
  IN  IF signedPayload.st = "threw" THEN signedPayload
      ELSE LET originalMessage == verifyMessage(signedPayload.val, senderPublicKey)
           IN  IF originalMessage.st = "threw"
               THEN Ret(signedPayload.val, <<"decryptMessage", "verifyMessage">>)
               ELSE originalMessage

decryptAndVerifyMessage(encryptedSignedPayload, recipientPrivateKey, senderPublicKey) ==
  LET bad1 == assertType("encryptedSignedPayload", encryptedSignedPayload,
                         "Uint8Array")
      bad2 == assertType("recipientPrivateKey", recipientPrivateKey, "PrivateKey")
      bad3 == assertType("senderPublicKey", senderPublicKey, "PublicKey")
  IN  IF bad1 # "" THEN Throw(bad1, <<>>)
      ELSE IF bad2 # "" THEN Throw(bad2, <<>>)
      ELSE IF bad3 # "" THEN Throw(bad3, <<>>)
      ELSE LET signedPayload ==
                 decryptMessage(encryptedSignedPayload, recipientPrivateKey)
           IN  IF signedPayload.st = "threw"
               THEN [signedPayload EXCEPT !.calls = <<"decryptMessage">> \o @]
               ELSE LET originalMessage ==
                          verifyMessage(signedPayload.val, senderPublicKey)
                    IN  [originalMessage EXCEPT
                           !.calls = <<"decryptMessage">> \o signedPayload.calls
                                       \o <<"verifyMessage">> \o @]

\* ------------------------------------------------------------ the callers
\* One exchange: a producer call makes a payload, the payload may be
\* altered in transit, a consumer call reads it.  The library keeps no
\* state between calls; the variables are the exchange's.
VARIABLES
  pc,       \* "idle", "sent" (a payload is in flight) or "done"
  payload,  \* the bytes in flight
  sent,     \* the producer call: its operation, arguments and result
  call,     \* the consumer call: its operation and keys
  outcome,  \* what the last call returned or threw
  rng,      \* the number of values the random source has given out
  log,      \* the (key, nonce, ephemeral key) of every encryption so far
  heap,     \* the byte arrays allocated so far, by address
  objs,     \* the BinaryData objects constructed so far
  refs      \* the addresses of the arrays the caller holds

\* The variables of one exchange, and those of the call sequences below.
exchange == <<pc, payload, sent, call, outcome>>
history == <<rng, log>>
memory == <<heap, objs, refs>>
vars == <<pc, payload, sent, call, outcome, rng, log, heap, objs, refs>>

CodePoints == {97, 233}
ByteValues == {97}
SeqsUpTo(S, n) == UNION {[1..l -> S] : l \in 0..n}

\* What a caller may pass as plainMessage: a string, a byte array, a
\* Message object, or (wrongly) a number.
PlainMessages ==
  {Str(s) : s \in SeqsUpTo(CodePoints, MaxLen)}
    \cup {U8(Raw(b)) : b \in SeqsUpTo(ByteValues, MaxLen)}
    \cup {BinaryData("Message", Raw(b)) : b \in SeqsUpTo(ByteValues, MaxLen)}
    \cup {Num}
\* A boolean parameter, or undefined when the caller leaves it out.
Flags == {Bool(TRUE), Bool(FALSE), Undefined}

NoPayload == Undefined
NoCall == [op |-> "none", priv |-> 0, pub |-> 0]
Sent(op, m, signer, rcpt, incM, incP, orig) ==
  [op |-> op, m |-> m, signer |-> signer, rcpt |-> rcpt, incM |-> incM,
   incP |-> incP, orig |-> orig]
NoSent == Sent("none", Undefined, 0, 0, Undefined, Undefined, Undefined)

Init ==
  /\ pc = "idle"
  /\ payload = NoPayload
  /\ sent = NoSent
  /\ call = NoCall
  /\ outcome = NoOutcome
  /\ rng = 0
  /\ log = <<>>
  /\ heap = <<>>
  /\ objs = <<>>
  /\ refs = {}

\* A producer call ended: its payload goes in flight, or its error is the
\* exchange's outcome.
Produced(r, s) ==
  IF r.st = "returned"
  THEN /\ pc' = "sent"
       /\ payload' = r.val
       /\ sent' = [s EXCEPT !.orig = r.val]
       /\ outcome' = NoOutcome
       /\ UNCHANGED call
  ELSE /\ pc' = "done"
       /\ outcome' = r
       /\ sent' = s
       /\ UNCHANGED <<payload, call>>

SignMessage ==
  /\ pc = "idle"
  /\ \E m \in PlainMessages, i \in Keys, incM \in Flags, incP \in Flags :
       Produced(signMessage(m, PrivateKey(i), incM, incP),
                Sent("signMessage", m, i, 0, incM, incP, Undefined))
  /\ UNCHANGED <<history, memory>>

EncryptMessage ==
  /\ pc = "idle"
  /\ \E m \in PlainMessages, i \in Keys, e \in Rands, r \in Rands :
       Produced(encryptMessage(m, publicKey(PrivateKey(i)), e, r),
                Sent("encryptMessage", m, 0, i, Undefined, Undefined, Undefined))
  /\ UNCHANGED <<history, memory>>

SignAndEncryptMessage ==
  /\ pc = "idle"
  /\ \E m \in PlainMessages, i \in Keys, j \in Keys, incP \in Flags,
        e \in Rands, r \in Rands :
       Produced(signAndEncryptMessage(m, PrivateKey(i), publicKey(PrivateKey(j)),
                                      incP, e, r),
                Sent("signAndEncryptMessage", m, i, j, Bool(TRUE), incP, Undefined))
  /\ UNCHANGED <<history, memory>>

\* A payload built by hand, field by field: what a peer that does not use
\* this library (or an attacker) may send as a signed envelope.
ForgedSig ==
  {Undefined, Str(<<>>), Str(<<97>>), Num, U8(Raw(<<>>)),
   U8(ed25519_sign(Raw(<<>>), Seed(1)))}
ForgedM == {Undefined, Str(<<97>>), U8(Raw(<<>>))}
ForgedP ==
  {Undefined, Str(<<97>>), U8(Raw(<<>>))}
    \cup {U8(ed25519_getPublicKey(Seed(i))) : i \in Keys}
WithField(obj, f, v) == IF v = Undefined THEN obj ELSE Put(obj, f, v)

ForgeSigned ==
  /\ pc = "idle"
  /\ \E sig \in ForgedSig, m \in ForgedM, P \in ForgedP :
       LET bytes == encode(WithField(WithField(WithField(EmptyObj, "sig", sig),
                                               "m", m), "P", P))
       IN  /\ pc' = "sent"
           /\ payload' = bytes
           /\ sent' = Sent("forge", Undefined, 0, 0, Undefined, Undefined, bytes)
           /\ UNCHANGED <<call, outcome>>
  /\ UNCHANGED <<history, memory>>

\* An ECIES envelope built by hand, field by field.
ForgedC == {Undefined, Str(<<97>>), U8(Raw(<<>>))}
ForgedP_e ==
  {Undefined, Num, U8(Raw(<<>>)), U8(x25519_getPublicKey(x25519_randomPrivateKey(1)))}
ForgedN == {Undefined, Str(<<97>>), U8(Raw(<<>>)), U8(randomBytes12(1))}

ForgeEncrypted ==
  /\ pc = "idle"
  /\ \E C \in ForgedC, P_e \in ForgedP_e, N \in ForgedN :
       LET bytes == encode(WithField(WithField(WithField(EmptyObj, "C", C),
                                               "P_e", P_e), "N", N))
       IN  /\ pc' = "sent"
           /\ payload' = bytes
           /\ sent' = Sent("forge", Undefined, 0, 0, Undefined, Undefined, bytes)
           /\ UNCHANGED <<call, outcome>>
  /\ UNCHANGED <<history, memory>>

\* The payload's decoded object with the bytes of field f replaced by d.
Patched(f, d) == encode([decode(payload) EXCEPT ![f] = U8(d)])
\* The payload carries field f as bytes made by primitive kind.
Carries(f, kind) ==
  /\ pc = "sent"
  /\ decodes(payload)
  /\ Has(decode(payload), f)
  /\ decode(payload)[f].t = "Uint8Array"
  /\ decode(payload)[f].d.k = kind
Field(f) == decode(payload)[f].d

\* One bit of a field changed in transit.
FlipCiphertextBit ==
  /\ Carries("C", "ct")
  /\ \E b \in Bits :
       payload' = Patched("C", [Field("C") EXCEPT !.flip = FlipBit(@, b)])
  /\ UNCHANGED <<pc, sent, call, outcome>>
  /\ UNCHANGED <<history, memory>>

FlipNonceBit ==
  /\ Carries("N", "nonce")
  /\ \E b \in Bits :
       payload' = Patched("N", [Field("N") EXCEPT !.flip = FlipBit(@, b)])
  /\ UNCHANGED <<pc, sent, call, outcome>>
  /\ UNCHANGED <<history, memory>>

FlipSignatureBit ==
  /\ Carries("sig", "sig")
  /\ \E b \in Bits :
       payload' = Patched("sig", [Field("sig") EXCEPT !.flip = FlipBit(@, b)])
  /\ UNCHANGED <<pc, sent, call, outcome>>
  /\ UNCHANGED <<history, memory>>

FlipMessageBit ==
  /\ Carries("m", "raw")
  /\ \E j \in DOMAIN Field("m").b, b \in Bits :
       payload' = Patched("m", [Field("m") EXCEPT !.b[j] = FlipBit(@, b)])
  /\ UNCHANGED <<pc, sent, call, outcome>>
  /\ UNCHANGED <<history, memory>>

\* A consumer call ended.
Consumed(op, i, j, r) ==
  /\ pc' = "done"
  /\ call' = [op |-> op, priv |-> i, pub |-> j]
  /\ outcome' = r
  /\ UNCHANGED <<payload, sent>>

VerifyMessage ==
  /\ pc = "sent"
  /\ \E j \in Keys :
       Consumed("verifyMessage", 0, j,
                verifyMessage(payload, publicKey(PrivateKey(j))))
  /\ UNCHANGED <<history, memory>>

DecryptMessage ==
  /\ pc = "sent"
  /\ \E i \in Keys :
       Consumed("decryptMessage", i, 0, decryptMessage(payload, PrivateKey(i)))
  /\ UNCHANGED <<history, memory>>

PrivateKeyDecrypt ==
  /\ pc = "sent"
  /\ \E i \in Keys :
       Consumed("PrivateKey.decrypt", i, 0,
                PrivateKey_decrypt(PrivateKey(i), payload))
  /\ UNCHANGED <<history, memory>>

DecryptAndVerifyMessage ==
  /\ pc = "sent"
  /\ \E i \in Keys, j \in Keys :
       Consumed("decryptAndVerifyMessage", i, j,
                decryptAndVerifyMessage(payload, PrivateKey(i),
                                        publicKey(PrivateKey(j))))
  /\ UNCHANGED <<history, memory>>

\* The exchange is over; the next one starts from nothing, as no call
\* leaves anything behind.
NextExchange ==
  /\ pc = "done"
  /\ pc' = "idle"
  /\ payload' = NoPayload
  /\ sent' = NoSent
  /\ call' = NoCall
  /\ outcome' = NoOutcome
  /\ UNCHANGED <<history, memory>>

Next ==
  \/ SignMessage
  \/ EncryptMessage
  \/ SignAndEncryptMessage
  \/ ForgeSigned
  \/ ForgeEncrypted
  \/ FlipCiphertextBit
  \/ FlipNonceBit
  \/ FlipSignatureBit
  \/ FlipMessageBit
  \/ VerifyMessage
  \/ DecryptMessage
  \/ PrivateKeyDecrypt
  \/ DecryptAndVerifyMessage
  \/ NextExchange

Spec == Init /\ [][Next]_vars

\* ------------------------------------------- a sequence of encryptions
\* The calls of one process, one after the other, with a random source
\* that never gives the same value twice: its n-th value is n.  Every
\* encryption that returns is logged with what it encrypted under.
MaxCalls == 2
\* What an encrypting call used, read off the envelope it returned.
Used(op, to, bytes) ==
  [op |-> op, to |-> to, key |-> decode(bytes)["C"].d.key,
   n |-> decode(bytes)["C"].d.n, P_e |-> decode(bytes)["P_e"],
   N |-> decode(bytes)["N"]]

\* The messages of these calls: a byte array, and a number, with which the
\* call throws before it draws.
CallMessages == {U8(Raw(<<97>>)), Num}

\* An encrypting call ended.  It drew twice from the random source if it
\* came to eciesEncrypt's body, and not at all if it threw before.
Encrypted(r, s) ==
  /\ IF r.st = "returned"
     THEN /\ payload' = r.val
          /\ sent' = [s EXCEPT !.orig = r.val]
          /\ outcome' = NoOutcome
          /\ log' = Append(log, Used(s.op, s.rcpt, r.val))
          /\ rng' = rng + 2
     ELSE /\ outcome' = r
          /\ sent' = s
          /\ UNCHANGED <<payload, log, rng>>
  /\ UNCHANGED <<pc, call, memory>>

EncryptMessageCall ==
  /\ Len(log) < MaxCalls
  /\ \E m \in CallMessages, i \in Keys :
       Encrypted(encryptMessage(m, publicKey(PrivateKey(i)), rng + 1, rng + 2),
                 Sent("encryptMessage", m, 0, i, Undefined, Undefined, Undefined))

PublicKeyEncryptCall ==
  /\ Len(log) < MaxCalls
  /\ \E m \in CallMessages, i \in Keys :
       Encrypted(PublicKey_encrypt(publicKey(PrivateKey(i)), m, rng + 1, rng + 2),
                 Sent("PublicKey.encrypt", m, 0, i, Undefined, Undefined, Undefined))

SignAndEncryptMessageCall ==
  /\ Len(log) < MaxCalls
  /\ \E m \in CallMessages, i \in Keys, j \in Keys, incP \in Flags :
       Encrypted(signAndEncryptMessage(m, PrivateKey(i), publicKey(PrivateKey(j)),
                                       incP, rng + 1, rng + 2),
                 Sent("signAndEncryptMessage", m, i, j, Bool(TRUE), incP, Undefined))

NextCall ==
  \/ EncryptMessageCall
  \/ PublicKeyEncryptCall
  \/ SignAndEncryptMessageCall

SpecCalls == Init /\ [][NextCall]_vars

\* ---------------------------------------- objects and the caller's arrays
\* A Uint8Array is a mutable array with an identity; heap[a] is the
\* content of the array at address a.  An object's data field holds an
\* address, as this.data holds a reference.
MaxArrays == 2
\* The values the caller writes into an array it holds.
WrittenValues == {98}
\* What toBinary() of object o gives now, as bytes.
Binary(o) == heap[objs[o].data]

\* The caller makes an array of its own.
NewUint8Array ==
  /\ Len(heap) < MaxArrays
  /\ \E b \in SeqsUpTo(ByteValues, MaxLen) :
       /\ heap' = Append(heap, b)
       /\ refs' = refs \cup {Len(heap) + 1}
  /\ UNCHANGED <<objs, exchange, history>>

\* new Message(a), new PrivateKey(a), new PublicKey(a) with an array of the
\* caller: this.data = data, the array itself and no copy of it.  built is
\* what the array held at that moment.
Construct ==
  /\ Len(objs) < MaxArrays
  /\ \E cls \in {"Message", "PrivateKey", "PublicKey"}, a \in refs :
       objs' = Append(objs, [cls |-> cls, data |-> a, built |-> heap[a]])
  /\ UNCHANGED <<heap, refs, exchange, history>>

\* new Message(s) with a string: the array is made by TextEncoder and the
\* caller has no reference to it.
ConstructFromString ==
  /\ Len(heap) < MaxArrays
  /\ Len(objs) < MaxArrays
  /\ \E s \in SeqsUpTo(CodePoints, MaxLen) :
       /\ heap' = Append(heap, Utf8(s))
       /\ objs' = Append(objs, [cls |-> "Message", data |-> Len(heap) + 1,
                                built |-> Utf8(s)])
  /\ UNCHANGED <<refs, exchange, history>>

\* o.toBinary(): return this.data, the object's own array.
ToBinary ==
  /\ \E o \in DOMAIN objs :
       /\ objs[o].data \notin refs
       /\ refs' = refs \cup {objs[o].data}
  /\ UNCHANGED <<heap, objs, exchange, history>>

\* The caller writes one element of an array it holds.
WriteElement ==
  /\ \E a \in refs, n \in 1..MaxLen, v \in WrittenValues :
       /\ n <= Len(heap[a])
       /\ heap[a][n] # v
       /\ heap' = [heap EXCEPT ![a][n] = v]
  /\ UNCHANGED <<objs, refs, exchange, history>>

\* signMessage(o, priv, true) with a Message object o: what is signed is
\* what o.toBinary() gives at the time of the call.  sent.m is the message
\* as it was constructed.
SignConstructed ==
  /\ \E o \in DOMAIN objs, i \in Keys :
       /\ objs[o].cls = "Message"
       /\ LET r == signMessage(BinaryData("Message", Raw(Binary(o))),
                               PrivateKey(i), Bool(TRUE), Bool(FALSE))
          IN  /\ payload' = r.val
              /\ sent' = Sent("signMessage",
                              BinaryData("Message", Raw(objs[o].built)),
                              i, 0, Bool(TRUE), Bool(FALSE), r.val)
  /\ UNCHANGED <<pc, call, outcome, memory, history>>

NextMemory ==
  \/ NewUint8Array
  \/ Construct
  \/ ConstructFromString
  \/ ToBinary
  \/ WriteElement
  \/ SignConstructed

SpecMemory == Init /\ [][NextMemory]_vars

\* ------------------------------------------------ forwarding an envelope
\* The recipient of a signed and encrypted envelope decrypts it and
\* encrypts what came out, as it is, for someone else: any key pair, the
\* sender's, its own, or a third one.
ForwardKeys == 1..(NumKeys + 1)

\* encryptMessage(decryptMessage(payload, privB), pubC)
Forward ==
  /\ pc = "done"
  /\ sent.op = "signAndEncryptMessage"
  /\ call.op = "decryptMessage"
  /\ outcome.st = "returned"
  /\ \E k \in ForwardKeys, e \in Rands, r \in Rands :
       LET again == encryptMessage(outcome.val, publicKey(PrivateKey(k)), e, r)
       IN  /\ again.st = "returned"
           /\ pc' = "sent"
           /\ payload' = again.val
           /\ sent' = [sent EXCEPT !.op = "forward", !.rcpt = k,
                                   !.orig = again.val]
           /\ call' = NoCall
           /\ outcome' = NoOutcome
  /\ UNCHANGED <<history, memory>>

\* decryptAndVerifyMessage by whoever the envelope was forwarded to, or by
\* anyone else.
DecryptAndVerifyForwarded ==
  /\ pc = "sent"
  /\ sent.op = "forward"
  /\ \E i \in ForwardKeys, j \in Keys :
       Consumed("decryptAndVerifyMessage", i, j,
                decryptAndVerifyMessage(payload, PrivateKey(i),
                                        publicKey(PrivateKey(j))))
  /\ UNCHANGED <<history, memory>>

NextForward ==
  \/ SignAndEncryptMessage
  \/ DecryptMessage
  \/ Forward
  \/ DecryptAndVerifyForwarded

SpecForward == Init /\ [][NextForward]_vars

\* ------------------------------------------------------------ properties
\* The bytes of a plainMessage argument: a string's UTF-8 encoding, a byte
\* array's or a Message's own bytes.
BytesOf(v) ==
  CASE v.t = "string" -> Raw(Utf8(v.s))
    [] v.t = "Uint8Array" -> v.d
    [] v.t = "Message" -> v.data
    [] OTHER -> Raw(<<>>)

Range(q) == {q[n] : n \in DOMAIN q}
\* The payload arrived as the producer made it.
Intact == payload = sent.orig
\* The consumer call op has ended on a payload made by one of ops.
Did(ops, op) == pc = "done" /\ sent.op \in ops /\ call.op = op
Returned(bytes) == outcome.st = "returned" /\ outcome.val = U8(bytes)
Threw(e) == outcome.st = "threw" /\ outcome.err = e /\ outcome.val = Undefined

\* C1: decryptMessage(encryptMessage(m, pub), priv) with pub = publicKey(priv)
\* returns exactly the bytes of m, for every message (string, bytes or
\* Message, empty or not), key pair, ephemeral key and nonce.
C1_EncryptDecryptRoundTrip ==
  (Did({"encryptMessage"}, "decryptMessage") /\ call.priv = sent.rcpt /\ Intact)
    => Returned(BytesOf(sent.m))

\* A non-ASCII string went through encrypt and decrypt and came back as its
\* two UTF-8 bytes.
C1_Witness ==
  /\ Did({"encryptMessage"}, "decryptMessage")
  /\ call.priv = sent.rcpt
  /\ Intact
  /\ sent.m = Str(<<233>>)
  /\ Returned(Raw(<<195, 169>>))

\* C2: verifyMessage(signMessage(m, priv, true, true), publicKey(priv))
\* returns exactly the bytes of m and raises no error.
C2_SignVerifyRoundTrip ==
  (/\ Did({"signMessage"}, "verifyMessage")
   /\ sent.incM = Bool(TRUE)
   /\ sent.incP = Bool(TRUE)
   /\ call.pub = sent.signer
   /\ Intact)
    => Returned(BytesOf(sent.m))

\* The empty message was signed with both flags and verified.
C2_Witness ==
  /\ Did({"signMessage"}, "verifyMessage")
  /\ sent.incM = Bool(TRUE)
  /\ sent.incP = Bool(TRUE)
  /\ call.pub = sent.signer
  /\ Intact
  /\ sent.m = Str(<<>>)
  /\ Returned(Raw(<<>>))

\* C3: decryptAndVerifyMessage(signAndEncryptMessage(m, senderPriv, recipPub),
\* recipPriv, senderPub) returns exactly the bytes of m, with
\* includeSenderPublicKey left at its default or passed as true.
C3_SignEncryptRoundTrip ==
  (/\ Did({"signAndEncryptMessage"}, "decryptAndVerifyMessage")
   /\ sent.incP \in {Undefined, Bool(TRUE)}
   /\ call.priv = sent.rcpt
   /\ call.pub = sent.signer
   /\ Intact)
    => Returned(BytesOf(sent.m))

\* A message from one key pair to another, the flag left out, came back.
C3_Witness ==
  /\ Did({"signAndEncryptMessage"}, "decryptAndVerifyMessage")
  /\ sent.incP = Undefined
  /\ sent.signer # sent.rcpt
  /\ call.priv = sent.rcpt
  /\ call.pub = sent.signer
  /\ Intact
  /\ sent.m = U8(Raw(<<97>>))
  /\ Returned(Raw(<<97>>))

\* C4: once any bit of C or of N of an envelope made by encryptMessage has
\* been changed, decryptMessage with the right private key raises the
\* authentication failure and returns no plaintext.
C4_TamperDetection ==
  (/\ Did({"encryptMessage", "signAndEncryptMessage"}, "decryptMessage")
   /\ call.priv = sent.rcpt
   /\ ~Intact)
    => Threw(EciesDecryptPrefix \o AuthenticationFailed)

\* The ciphertext alone was changed, nonce and key being right.
C4_Witness ==
  /\ Did({"encryptMessage"}, "decryptMessage")
  /\ call.priv = sent.rcpt
  /\ decode(payload)["C"] # decode(sent.orig)["C"]
  /\ decode(payload)["N"] = decode(sent.orig)["N"]
  /\ Threw(EciesDecryptPrefix \o AuthenticationFailed)

\* C5: decryptMessage(encryptMessage(m, pubA), privB) with B # A raises the
\* authentication failure and returns no plaintext.
C5_WrongKeyRejection ==
  (Did({"encryptMessage"}, "decryptMessage") /\ call.priv # sent.rcpt)
    => Threw(EciesDecryptPrefix \o AuthenticationFailed)

\* An untouched envelope was opened with another key pair's private key.
C5_Witness ==
  /\ Did({"encryptMessage"}, "decryptMessage")
  /\ call.priv # sent.rcpt
  /\ Intact
  /\ Threw(EciesDecryptPrefix \o AuthenticationFailed)

\* The envelope in flight, decoded, and its fields (undefined when absent).
Env == decode(payload)
EnvSig == Get(Env, "sig")
EnvM == Get(Env, "m")
EnvP == Get(Env, "P")
IsBytes(v) == v.t = "Uint8Array"
\* The public key bytes of key pair j.
PubBytes(j) == ed25519_getPublicKey(Seed(j))
\* The KeyId of P is the KeyId of key pair j's public key.
SameKeyId(P, j) == ripemd160Hex(P.d) = ripemd160Hex(PubBytes(j))
VerifyDone == pc = "done" /\ call.op = "verifyMessage" /\ decodes(payload)

\* C6: when a signed envelope (sig bytes, m absent or bytes) carries a public
\* key P whose KeyId is not the expected key's, verifyMessage raises the
\* key-mismatch error and the signature primitive has not been invoked; so
\* verify(sign(m, privA, true, true), pubB), B # A, is key-mismatch and never
\* invalid-signature.
C6_KeyMismatchBeforeSignature ==
  (/\ VerifyDone
   /\ IsBytes(EnvSig)
   /\ EnvM = Undefined \/ IsBytes(EnvM)
   /\ IsBytes(EnvP)
   /\ ~SameKeyId(EnvP, call.pub))
    => /\ Threw(KeyMismatch)
       /\ "ed25519.verify" \notin Range(outcome.calls)

\* sign(m, privA, true, true) was verified against another key pair's
\* public key.
C6_Witness ==
  /\ Did({"signMessage"}, "verifyMessage")
  /\ sent.incM = Bool(TRUE)
  /\ sent.incP = Bool(TRUE)
  /\ Intact
  /\ call.pub # sent.signer
  /\ Threw(KeyMismatch)
  /\ "ed25519.verify" \notin Range(outcome.calls)

\* Errors of the decrypt stage and of the verify stage.
DecryptionErrors ==
  {InvalidEncryptedPayload, EciesDecryptPrefix \o AuthenticationFailed,
   EciesDecryptPrefix \o NobleCurvesError, EciesDecryptPrefix \o NobleCiphersError}
VerificationErrors ==
  {CborError, MissingSignature, MessageNotBytes, PublicKeyNotBytes, KeyMismatch,
   MessageNotIncluded, InvalidSignature}
\* The payload is an ECIES envelope that the private key of the call opens.
Opens ==
  /\ sent.op \in {"encryptMessage", "signAndEncryptMessage"}
  /\ Intact
  /\ call.priv = sent.rcpt

\* The plaintext that was sealed in the payload's ciphertext.
Sealed == U8(Field("C").pt)

C7_WitnessDecryptStage ==
  /\ Did({"signAndEncryptMessage"}, "decryptAndVerifyMessage")
  /\ Intact
  /\ call.priv # sent.rcpt
  /\ call.pub = sent.signer
  /\ Threw(EciesDecryptPrefix \o AuthenticationFailed)
  /\ "verifyMessage" \notin Range(outcome.calls)

C9_SignedEnvelopeShape ==
  (sent.op = "signMessage" /\ sent.orig # Undefined)
    => LET o == decode(sent.orig)
       IN  /\ decodes(sent.orig)
           /\ Has(o, "sig")
           /\ o["sig"] = U8(ed25519_sign(BytesOf(sent.m), Seed(sent.signer)))
           /\ Has(o, "m") <=> sent.incM = Bool(TRUE)
           /\ Has(o, "m") => o["m"] = U8(BytesOf(sent.m))
           /\ Has(o, "P") <=> sent.incP = Bool(TRUE)
           /\ Has(o, "P") => o["P"] = U8(PubBytes(sent.signer))
           /\ DOMAIN o \subseteq {"sig", "m", "P"}

\* signMessage was called with includeMessage left out and
\* includeSenderPublicKey true: P without m.
C9_Witness ==
  /\ pc = "sent"
  /\ sent.op = "signMessage"
  /\ sent.incM = Undefined
  /\ sent.incP = Bool(TRUE)
  /\ DOMAIN decode(sent.orig) = {"sig", "P"}

EnvC == Get(Env, "C")
EnvP_e == Get(Env, "P_e")
EnvN == Get(Env, "N")
\* No key agreement and no decryption took place in the call.
NoKeyAgreement ==
  Range(outcome.calls) \cap {"eciesDecrypt", "x25519.getSharedSecret", "siv",
                             "aes.decrypt"} = {}

\* C11: decryptMessage (and PrivateKey.decrypt) rejects, before any key
\* agreement or decryption, every decoded record in which C, P_e or N is
\* missing or is not a byte sequence; verifyMessage rejects every decoded
\* record in which sig is missing or not a byte sequence, or in which m or P
\* is present and not a byte sequence.
C11_DecodeValidation ==
  /\ (/\ pc = "done"
      /\ call.op \in {"decryptMessage", "PrivateKey.decrypt"}
      /\ decodes(payload)
      /\ ~IsBytes(EnvC) \/ ~IsBytes(EnvP_e) \/ ~IsBytes(EnvN))
       => /\ outcome.st = "threw"
          /\ outcome.val = Undefined
          /\ NoKeyAgreement
          /\ call.op = "decryptMessage" => outcome.err = InvalidEncryptedPayload
  /\ (/\ VerifyDone
      /\ \/ ~IsBytes(EnvSig)
         \/ Has(Env, "m") /\ ~IsBytes(EnvM)
         \/ Has(Env, "P") /\ ~IsBytes(EnvP))
       => /\ outcome.st = "threw"
          /\ outcome.val = Undefined
          /\ outcome.err \in {MissingSignature, MessageNotBytes, PublicKeyNotBytes}
          /\ "ed25519.verify" \notin Range(outcome.calls)

\* An envelope with C and N as bytes and no P_e was rejected by
\* decryptMessage before any key agreement.
C11_Witness ==
  /\ pc = "done"
  /\ call.op = "decryptMessage"
  /\ IsBytes(EnvC)
  /\ IsBytes(EnvN)
  /\ ~Has(Env, "P_e")
  /\ Threw(InvalidEncryptedPayload)
  /\ NoKeyAgreement

\* The number of bytes of a byte string that can stand in a fixed-length
\* field: an Ed25519 signature has 64, a key 32, the nonce 12.
ByteLength(d) ==
  CASE d.k = "raw" -> Len(d.b)
    [] d.k = "sig" -> 64
    [] d.k \in {"seed", "edpub", "xpriv", "xpub"} -> 32
    [] d.k = "nonce" -> 12
    [] OTHER -> 0
\* Field v is a byte sequence whose length is not n.
WrongLength(v, n) == IsBytes(v) /\ ByteLength(v.d) # n
\* The outcomes of a key mismatch, an invalid signature and a failed
\* authentication.
OtherFailures ==
  {KeyMismatch, InvalidSignature, EciesDecryptPrefix \o AuthenticationFailed}

\* C12: an envelope whose fixed-length field has the wrong length (sig not
\* 64 bytes, P not 32, P_e not 32, N not 12) is rejected with an error the
\* caller can tell apart from the key-mismatch, invalid-signature and
\* authentication-failed errors.
C12_WrongLengthIsValidationError ==
  /\ (/\ VerifyDone
      /\ IsBytes(EnvSig)
      /\ Has(Env, "m") => IsBytes(EnvM)
      /\ Has(Env, "P") => IsBytes(EnvP)
      /\ WrongLength(EnvSig, 64) \/ WrongLength(EnvP, 32))
       => outcome.st = "threw" /\ outcome.err \notin OtherFailures
  /\ (/\ pc = "done"
      /\ call.op = "decryptMessage"
      /\ decodes(payload)
      /\ IsBytes(EnvC) /\ IsBytes(EnvP_e) /\ IsBytes(EnvN)
      /\ WrongLength(EnvP_e, 32) \/ WrongLength(EnvN, 12))
       => outcome.st = "threw" /\ outcome.err \notin OtherFailures

\* What the code does instead: an empty signature is an invalid signature,
\* an empty P is a key mismatch.
C12_WrongLengthAsOtherFailure ==
  /\ (VerifyDone /\ WrongLength(EnvSig, 64) /\ IsBytes(EnvM) /\ ~Has(Env, "P"))
       => Threw(InvalidSignature)
  /\ (/\ VerifyDone
      /\ IsBytes(EnvSig)
      /\ Has(Env, "m") => IsBytes(EnvM)
      /\ WrongLength(EnvP, 32))
       => Threw(KeyMismatch)

\* The one outcome of a decryption whose authentication failed: the error
\* and the calls made on the way to it.
AuthenticationFailure ==
  Throw(EciesDecryptPrefix \o AuthenticationFailed,
        <<"decode", "eciesDecrypt", "x25519.getSharedSecret", "siv",
          "aes.decrypt", "console.error">>)
\* Field f of the envelope in flight is not the one that was produced.
Modified(f) == decode(payload)[f] # decode(sent.orig)[f]

\* C13: for an ECIES envelope, decryptMessage ends in the identical error
\* outcome whether decryption failed because of a wrong recipient private
\* key, a modified C or a wrong nonce: nothing in the outcome tells the
\* three causes apart.
C13_AuthenticationFailuresAlike ==
  (/\ Did({"encryptMessage", "signAndEncryptMessage"}, "decryptMessage")
   /\ call.priv # sent.rcpt \/ Modified("C") \/ Modified("N"))
    => outcome = AuthenticationFailure

\* The nonce alone was wrong, key and ciphertext being right, and the
\* outcome is the one a wrong key gives.
C13_Witness ==
  /\ Did({"encryptMessage"}, "decryptMessage")
  /\ call.priv = sent.rcpt
  /\ ~Modified("C")
  /\ Modified("N")
  /\ outcome = AuthenticationFailure

\* C14: every encryptMessage, PublicKey.encrypt and signAndEncryptMessage
\* call draws its own ephemeral key pair and its own nonce, nothing being
\* kept from one call to the next, and the ephemeral private key is no part
\* of the result; so, with a random source that never repeats, no two calls
\* of any sequence encrypt under the same (symmetric key, nonce) pair.
C14_FreshEphemeralKeyAndNonce ==
  /\ \A a \in DOMAIN log, b \in DOMAIN log :
       a # b => /\ log[a].P_e # log[b].P_e
                /\ log[a].N # log[b].N
                /\ <<log[a].key, log[a].n>> # <<log[b].key, log[b].n>>
  /\ \A a \in DOMAIN log : log[a].N.d = log[a].n
  /\ (log # <<>> /\ payload # NoPayload) =>
       /\ DOMAIN decode(payload) = {"C", "P_e", "N"}
       /\ \A f \in DOMAIN decode(payload) : decode(payload)[f].d.k # "xpriv"

\* Two calls in a row encrypted for the same recipient.
C14_Witness ==
  /\ Len(log) >= 2
  /\ log[1].to = log[2].to
  /\ log[1].op = "encryptMessage"
  /\ log[2].op = "PublicKey.encrypt"
  /\ log[1].key # log[2].key

\* The byte sequence of length 0.
Empty == U8(Raw(<<>>))

\* C15: verifyMessage takes a field that is present and empty as present:
\* an empty sig is not the missing-signature error but goes to the
\* signature check, an empty P is put to the key-match check and fails it,
\* and an empty m goes to the signature check, so that the signed empty
\* message verifies and is never the message-not-included error.
C15_EmptyIsNotAbsent ==
  /\ (VerifyDone /\ EnvSig = Empty)
       => /\ outcome.st = "threw"
          /\ outcome.err # MissingSignature
          /\ (IsBytes(EnvM) /\ ~Has(Env, "P"))
               => /\ Threw(InvalidSignature)
                  /\ "ed25519.verify" \in Range(outcome.calls)
  /\ (/\ VerifyDone
      /\ IsBytes(EnvSig)
      /\ Has(Env, "m") => IsBytes(EnvM)
      /\ EnvP = Empty)
       => Threw(KeyMismatch)
  /\ (/\ VerifyDone
      /\ IsBytes(EnvSig)
      /\ EnvM = Empty
      /\ Has(Env, "P") => (IsBytes(EnvP) /\ SameKeyId(EnvP, call.pub)))
       => /\ "ed25519.verify" \in Range(outcome.calls)
          /\ outcome.st = "threw" => outcome.err = InvalidSignature
          /\ EnvSig = U8(ed25519_sign(Raw(<<>>), Seed(call.pub)))
               => Returned(Raw(<<>>))

\* A hand-built envelope with a true signature, an empty m and an empty P
\* failed the key-match check.
C15_Witness ==
  /\ VerifyDone
  /\ sent.op = "forge"
  /\ EnvSig = U8(ed25519_sign(Raw(<<>>), Seed(call.pub)))
  /\ EnvM = Empty
  /\ EnvP = Empty
  /\ Threw(KeyMismatch)

\* A hand-built envelope with an empty sig and an empty m was rejected by
\* the signature check, not as lacking a signature.
C15_WitnessEmptySig ==
  /\ VerifyDone
  /\ EnvSig = Empty
  /\ EnvM = Empty
  /\ ~Has(Env, "P")
  /\ Threw(InvalidSignature)

\* C16: what signAndEncryptMessage(m, senderPriv, recipPub, f) encrypts is
\* the whole signed envelope: decryptMessage of its output with the
\* recipient's key returns signMessage(m, senderPriv, true, f) byte for
\* byte.  That envelope always holds m, holds P exactly when f is true (f is
\* true when left out), and its signature was made first, over m alone.
C16_SignThenEncrypt ==
  (/\ Did({"signAndEncryptMessage"}, "decryptMessage")
   /\ Intact
   /\ call.priv = sent.rcpt)
    => LET f == IF sent.incP = Undefined THEN Bool(TRUE) ELSE sent.incP
           inner == signMessage(sent.m, PrivateKey(sent.signer), Bool(TRUE), f)
       IN  /\ outcome.st = "returned"
           /\ inner.st = "returned"
           /\ outcome.val = inner.val
           /\ decodes(outcome.val)
           /\ LET o == decode(outcome.val)
              IN  /\ Has(o, "m") /\ o["m"] = U8(BytesOf(sent.m))
                  /\ Has(o, "P") <=> f = Bool(TRUE)
                  /\ Has(o, "P") => o["P"] = U8(PubBytes(sent.signer))
                  /\ o["sig"] = U8(ed25519_sign(BytesOf(sent.m), Seed(sent.signer)))

\* The recipient decrypted an envelope made with f = false and got a signed
\* envelope with m and sig and no P.
C16_Witness ==
  /\ Did({"signAndEncryptMessage"}, "decryptMessage")
  /\ Intact
  /\ call.priv = sent.rcpt
  /\ sent.signer # sent.rcpt
  /\ sent.incP = Bool(FALSE)
  /\ outcome.st = "returned"
  /\ DOMAIN decode(outcome.val) = {"sig", "m"}

\* The signature check alone decided: the message came back under the
\* signer's key, the invalid-signature error under any other.
BySignatureAlone ==
  /\ "ed25519.verify" \in Range(outcome.calls)
  /\ call.pub = sent.signer => Returned(BytesOf(sent.m))
  /\ call.pub # sent.signer => Threw(InvalidSignature)

\* C17: for a signed envelope with m and without P the signature check
\* alone decides: verifyMessage(signMessage(m, privA, true, false), pubA)
\* returns m and with any other key pubB it fails with the
\* invalid-signature error, never the key-mismatch error; the same holds of
\* decryptAndVerifyMessage on signAndEncryptMessage(m, privA, recipPub, false).
C17_VerifyWithoutEmbeddedKey ==
  /\ (/\ Did({"signMessage"}, "verifyMessage")
      /\ sent.incM = Bool(TRUE)
      /\ sent.incP \in {Bool(FALSE), Undefined}
      /\ Intact)
       => ~Has(Env, "P") /\ BySignatureAlone
  /\ (/\ Did({"signAndEncryptMessage"}, "decryptAndVerifyMessage")
      /\ sent.incP = Bool(FALSE)
      /\ Intact
      /\ call.priv = sent.rcpt)
       => ~Has(decode(Sealed), "P") /\ BySignatureAlone

\* An envelope signed and encrypted with f = false was opened by its
\* recipient and verified against a key that is not the signer's.
C17_Witness ==
  /\ Did({"signAndEncryptMessage"}, "decryptAndVerifyMessage")
  /\ sent.incP = Bool(FALSE)
  /\ Intact
  /\ call.priv = sent.rcpt
  /\ call.pub # sent.signer
  /\ Threw(InvalidSignature)

\* signMessage(m, privA, true, false) was verified against pubA.
C17_WitnessVerify ==
  /\ Did({"signMessage"}, "verifyMessage")
  /\ sent.incM = Bool(TRUE)
  /\ sent.incP = Bool(FALSE)
  /\ Intact
  /\ call.pub = sent.signer
  /\ sent.m = Str(<<233>>)
  /\ Returned(Raw(Utf8(<<233>>)))

\* C18: once a Message, PrivateKey or PublicKey is constructed from a byte
\* array, toBinary() gives the same bytes at every later point, whatever the
\* caller does to the array it passed to the constructor or to the array
\* toBinary() returned; a message signed after such a write is still the
\* message that was constructed.
C18_ConstructedValuesImmutable ==
  /\ \A o \in DOMAIN objs : Binary(o) = objs[o].built
  /\ sent.op = "signMessage" => decode(payload)["m"] = U8(BytesOf(sent.m))

\* What the code does instead: an object and the caller share one array, so
\* an object differs from what was constructed only if the caller holds its
\* array.
C18_SharedWithCaller ==
  \A o \in DOMAIN objs : Binary(o) # objs[o].built => objs[o].data \in refs

\* C19: the signature does not bind the recipient.  When B has decrypted
\* signAndEncryptMessage(m, senderPriv, pubB) and encrypted the result for
\* any key pair C, decryptAndVerifyMessage of that envelope with C's private
\* key and the sender's public key succeeds and returns m: C cannot tell
\* that the message was first sent to B.
C19_SignatureDoesNotBindRecipient ==
  (/\ Did({"forward"}, "decryptAndVerifyMessage")
   /\ Intact
   /\ call.priv = sent.rcpt
   /\ call.pub = sent.signer)
    => /\ Returned(BytesOf(sent.m))
       /\ Range(outcome.calls) \cap {"console.error"} = {}
       /\ Sealed = signMessage(sent.m, PrivateKey(sent.signer), Bool(TRUE),
                               IF sent.incP = Undefined THEN Bool(TRUE)
                               ELSE sent.incP).val

\* An envelope was forwarded to a key pair that is neither the sender's nor
\* the first recipient's, and it verified there as the sender's message.
C19_Witness ==
  /\ Did({"forward"}, "decryptAndVerifyMessage")
  /\ Intact
  /\ sent.rcpt \notin Keys
  /\ call.priv = sent.rcpt
  /\ call.pub = sent.signer
  /\ sent.m = Str(<<233>>)
  /\ Returned(Raw(Utf8(<<233>>)))

=============================================================================
